---- MODULE Spec2Model ----
(***************************************************************************)
(* Email triage: the message-intake pipeline (services/pipeline.py) and    *)
(* the escalation engine (escalation/engine.py) over the persistent store. *)
(*                                                                         *)
(* The store is a transactional database reached through SQLAlchemy       *)
(* sessions: a handler reads committed rows, changes its own in-session    *)
(* copies of them, and the changed columns become persistent when the      *)
(* `async with get_db_session()` block is left.  Time is counted in        *)
(* minutes.                                                                *)
(***************************************************************************)
EXTENDS Integers, Sequences, FiniteSets, TLC

(***************************************************************************)
(* Bounds of the model                                                     *)
(***************************************************************************)
MaxTime == 30
MaxContacts == 2
MaxPlanDelay == 5
MaxSteps == 5
MaxStops == 2

(***************************************************************************)
(* Program constants                                                       *)
(***************************************************************************)
WindowCritical == 15
WindowHigh == 60
WindowNormal == 240
WindowLow == 480
DefaultWindow == 60
EmailMaxRetries == 3
SmsMaxRetries == 2
RetryMinutes == 5

\* the clock of the model advances in units of the retry backoff
TickMinutes == RetryMinutes

Priorities == {"critical", "high", "normal", "low"}
Dispatchers == {"scheduler", "manual"}

\* what _resolve_contact_reference can return: a named contact with both
\* addresses, the internal e-mail address, or the internal phone number
ContactKinds ==
  { [email |-> TRUE,  phone |-> TRUE],
    [email |-> TRUE,  phone |-> FALSE],
    [email |-> FALSE, phone |-> TRUE] }

VARIABLES
  now,          \* datetime.utcnow(), minutes
  tickets,      \* table tickets, in insertion order; the index is Ticket.id
  steps,        \* table escalation_steps; the index is EscalationStep.id
  directory,    \* ContactManager: the resolved contacts, in order
  smsAlerts,    \* settings.ENABLE_SMS_ALERTS
  startRet,     \* return value of start_escalation per ticket, "none" before
  stopRet,      \* return values of the stop_escalation calls per ticket, in order
  plannedAt,    \* current_time read by _create_escalation_steps, -1 before
  dpc,          \* position of each process_pending_escalations run
  batch,        \* pending_steps of the run: step ids ordered by scheduled_at
  idx,          \* position of the run in its batch
  loaded,       \* rows of the batch as the run's session loaded them
  local,        \* the run's in-session copies of those rows
  dlevel,       \* Ticket.escalation_level as the run loaded it and as it set it
  sends,        \* number of sender invocations per step
  preStop,      \* steps that were in a selected batch when their ticket was stopped
  sentAfterStop \* steps set to SENT in a session while their ticket was stopped

VARIABLES
  today,        \* the UTC date of datetime.utcnow()
  msgData,      \* what each fetched message parses and classifies to
  msgStates,    \* table message_states, one row per message_id ("none": no row)
  emailRows,    \* message_ids of table email_messages
  wpc,          \* position of each _process_single_message run
  wmsg,         \* message_id of the run
  wstate,       \* the run's in-session MessageState
  wemail,       \* the run's session holds a new EmailMessage
  wflushed,     \* the run's session has flushed its rows and holds them uncommitted
  wticket,      \* the run's in-session Ticket
  wresult,      \* what the last run of the worker returned
  started,      \* number of runs each worker has started
  conf,         \* customer confirmations sent, per message_id
  markRead,     \* mark_read calls, per message_id
  ticketsMade,  \* Ticket objects created, per message_id
  planCalls,    \* start_escalation calls of the pipeline, per message_id
  mailbox       \* the process_mailbox call: the fetched messages and result

VARIABLES
  call,         \* the function under evaluation and its arguments
  ret           \* its return value, NoReturn before the call

pureVars == << call, ret >>

intakeVars == << today, msgData, msgStates, emailRows, wpc, wmsg, wstate,
                 wemail, wflushed, wticket, wresult, started, conf, markRead,
                 ticketsMade, planCalls, mailbox >>

escVars == << now, tickets, steps, directory, smsAlerts, startRet, stopRet, plannedAt,
              dpc, batch, idx, loaded, local, dlevel, sends,
              preStop, sentAfterStop >>

vars == << escVars, intakeVars, pureVars >>

NoCall == [fn |-> "none"]
NoReturn == [returned |-> FALSE]

\* process_mailbox has not been called
NoMailbox ==
  [ fetched |-> << >>, done |-> 0, processed |-> 0, skipped |-> 0,
    errors |-> 0, returned |-> FALSE ]

Max(a, b) == IF a >= b THEN a ELSE b

TicketIds == 1 .. Len(tickets)
StepIds == 1 .. Len(steps)

(***************************************************************************)
(* EscalationEngine.__init__: escalation interval by priority              *)
(***************************************************************************)
escalation_intervals(priority) ==
  CASE priority = "critical" -> WindowCritical
    [] priority = "high"     -> WindowHigh
    [] priority = "normal"   -> WindowNormal
    [] priority = "low"      -> WindowLow
    [] OTHER                 -> DefaultWindow

(***************************************************************************)
(* EscalationEngine._create_escalation_steps                               *)
(***************************************************************************)
ScheduledTime_ZeroBased(current_time, interval_minutes, step_number) ==
  current_time + interval_minutes * (step_number - 1)

ScheduledTime_Divided(current_time, interval_minutes, step_number) ==
  current_time + interval_minutes \div step_number

ScheduledTime(current_time, interval_minutes, step_number) ==
  current_time + interval_minutes * step_number

NewStep(t, step_number, channel, scheduled_time, max_retries) ==
  [ ticket_id |-> t, step_number |-> step_number, channel |-> channel,
    status |-> "scheduled", scheduled_at |-> scheduled_time,
    retry_count |-> 0, max_retries |-> max_retries ]

StepsForContact_SmsAlways(t, priority, contact, step_number, current_time) ==
  LET scheduled_time ==
        ScheduledTime(current_time, escalation_intervals(priority), step_number)
      email_steps ==
        IF contact.email
          THEN << NewStep(t, step_number, "email", scheduled_time, EmailMaxRetries) >>
          ELSE << >>
      sms_steps ==
        IF contact.phone
          THEN << NewStep(t, step_number, "sms", scheduled_time, SmsMaxRetries) >>
          ELSE << >>
  IN email_steps \o sms_steps

StepsForContact(t, priority, contact, step_number, current_time) ==
  LET scheduled_time ==
        ScheduledTime(current_time, escalation_intervals(priority), step_number)
      email_steps ==
        IF contact.email
          THEN << NewStep(t, step_number, "email", scheduled_time, EmailMaxRetries) >>
          ELSE << >>
      sms_steps ==
        IF contact.phone /\ (priority = "critical" \/ smsAlerts)
          THEN << NewStep(t, step_number, "sms", scheduled_time, SmsMaxRetries) >>
          ELSE << >>
  IN email_steps \o sms_steps

RECURSIVE CreateStepsFrom(_, _, _, _, _)
CreateStepsFrom(t, priority, contacts, i, current_time) ==
  IF i > Len(contacts) THEN << >>
  ELSE StepsForContact(t, priority, contacts[i], i, current_time)
       \o CreateStepsFrom(t, priority, contacts, i + 1, current_time)

create_escalation_steps(t, contacts, current_time) ==
  CreateStepsFrom(t, tickets[t].priority, contacts, 1, current_time)

(***************************************************************************)
(* EscalationEngine.start_escalation: one session, committed on return     *)
(***************************************************************************)
start_escalation(t) ==
  /\ IF tickets[t].escalation_stopped \/ directory = << >>
       THEN /\ startRet' = [startRet EXCEPT ![t] = "false"]
            /\ UNCHANGED << steps, plannedAt, sends >>
       ELSE LET created == create_escalation_steps(t, directory, now)
            IN /\ steps' = steps \o created
               /\ sends' = sends \o [i \in 1 .. Len(created) |-> 0]
               /\ plannedAt' = [plannedAt EXCEPT ![t] = now]
               /\ startRet' = [startRet EXCEPT ![t] = "true"]
  /\ UNCHANGED << now, tickets, directory, smsAlerts, stopRet, dpc, batch,
                  idx, loaded, local, dlevel, preStop, sentAfterStop >>
  /\ UNCHANGED intakeVars
  /\ UNCHANGED pureVars

\* the first invocation for the ticket
StartEscalation(t) ==
  /\ t \in TicketIds
  /\ startRet[t] = "none"
  /\ now - tickets[t].created_at <= MaxPlanDelay
  /\ start_escalation(t)

\* a later invocation for the same ticket
RestartEscalation(t) ==
  /\ t \in TicketIds
  /\ startRet[t] # "none"
  /\ Len(steps) < MaxSteps
  /\ start_escalation(t)

(***************************************************************************)
(* EscalationEngine.stop_escalation: one session, committed on return      *)
(***************************************************************************)
\* the status the bulk UPDATE of stop_escalation selects
StopSelectsStatus == "pending"

StopUpdate(t, row) ==
  IF row.ticket_id = t /\ row.status = StopSelectsStatus
    THEN [row EXCEPT !.status = "skipped"]
    ELSE row

InSelectedBatch(s) ==
  \E d \in Dispatchers : dpc[d] # "idle" /\ s \in DOMAIN local[d]

StopReasons == {"customer_reply", "resolved"}

stop_escalation_Overwrites(t, reason) ==
  /\ tickets' = [tickets EXCEPT ![t].escalation_stopped = TRUE,
                                ![t].escalation_stopped_reason = reason]
  /\ steps' = [s \in StepIds |-> StopUpdate(t, steps[s])]
  /\ preStop' = preStop \cup
       {s \in StepIds : steps[s].ticket_id = t /\ InSelectedBatch(s)}
  /\ stopRet' = [stopRet EXCEPT ![t] = Append(@, "true")]
  /\ UNCHANGED << now, directory, smsAlerts, startRet, plannedAt, dpc, batch,
                  idx, loaded, local, dlevel, sends, sentAfterStop >>
  /\ UNCHANGED intakeVars
  /\ UNCHANGED pureVars

stop_escalation(t, reason) ==
  /\ IF tickets[t].escalation_stopped
       THEN UNCHANGED << tickets, steps, preStop >>
       ELSE /\ tickets' = [tickets EXCEPT ![t].escalation_stopped = TRUE,
                                          ![t].escalation_stopped_reason = reason]
            /\ steps' = [s \in StepIds |-> StopUpdate(t, steps[s])]
            /\ preStop' = preStop \cup
                 {s \in StepIds : steps[s].ticket_id = t /\ InSelectedBatch(s)}
  /\ stopRet' = [stopRet EXCEPT ![t] = Append(@, "true")]
  /\ UNCHANGED << now, directory, smsAlerts, startRet, plannedAt, dpc, batch,
                  idx, loaded, local, dlevel, sends, sentAfterStop >>
  /\ UNCHANGED intakeVars
  /\ UNCHANGED pureVars

\* the first invocation for the ticket
StopEscalation(t) ==
  /\ t \in TicketIds
  /\ stopRet[t] = << >>
  /\ stop_escalation(t, "customer_reply")

\* a later invocation for the same ticket, with any reason
RestopEscalation(t) ==
  /\ t \in TicketIds
  /\ Len(stopRet[t]) \in 1 .. (MaxStops - 1)
  /\ \E reason \in StopReasons : stop_escalation(t, reason)

(***************************************************************************)
(* EscalationEngine.process_pending_escalations                            *)
(***************************************************************************)
IsDue_IgnoringStop(s) ==
  /\ steps[s].status = "scheduled"
  /\ steps[s].scheduled_at <= now

\* the WHERE clause of the select
IsDue(s) ==
  /\ steps[s].status = "scheduled"
  /\ steps[s].scheduled_at <= now
  /\ ~tickets[steps[s].ticket_id].escalation_stopped

DueSteps == {s \in StepIds : IsDue(s)}

OrderedBy_Unordered(S) ==
  { q \in [1 .. Cardinality(S) -> S] :
      \A i, j \in 1 .. Cardinality(S) : i # j => q[i] # q[j] }

\* ORDER BY scheduled_at; rows with equal scheduled_at come in any order
OrderedBy(S) ==
  { q \in [1 .. Cardinality(S) -> S] :
      /\ \A i, j \in 1 .. Cardinality(S) : i # j => q[i] # q[j]
      /\ \A i, j \in 1 .. Cardinality(S) :
           i < j => steps[q[i]].scheduled_at <= steps[q[j]].scheduled_at }

Row(s) ==
  [ status |-> steps[s].status, retry_count |-> steps[s].retry_count,
    scheduled_at |-> steps[s].scheduled_at ]

SelectPending(d) ==
  /\ dpc[d] = "idle"
  /\ DueSteps # {}
  /\ \E q \in OrderedBy(DueSteps) :
       /\ batch' = [batch EXCEPT ![d] = q]
       /\ loaded' = [loaded EXCEPT ![d] = [s \in DueSteps |-> Row(s)]]
       /\ local' = [local EXCEPT ![d] = [s \in DueSteps |-> Row(s)]]
       /\ dlevel' = [dlevel EXCEPT ![d] =
            [t \in {steps[s].ticket_id : s \in DueSteps} |->
               [ loaded |-> tickets[t].escalation_level,
                 level |-> tickets[t].escalation_level ]]]
  /\ idx' = [idx EXCEPT ![d] = 1]
  /\ dpc' = [dpc EXCEPT ![d] = "loop"]
  /\ UNCHANGED << now, tickets, steps, directory, smsAlerts, startRet, stopRet,
                  plannedAt, sends, preStop, sentAfterStop >>
  /\ UNCHANGED intakeVars
  /\ UNCHANGED pureVars

(***************************************************************************)
(* EscalationEngine._execute_escalation_step                               *)
(***************************************************************************)
\* step.status = PENDING, then the channel sender is awaited
ExecuteStep(d) ==
  /\ dpc[d] = "loop"
  /\ idx[d] <= Len(batch[d])
  /\ LET s == batch[d][idx[d]]
     IN /\ local' = [local EXCEPT ![d][s].status = "pending"]
        /\ sends' = [sends EXCEPT ![s] = @ + 1]
  /\ dpc' = [dpc EXCEPT ![d] = "sending"]
  /\ UNCHANGED << now, tickets, steps, directory, smsAlerts, startRet, stopRet,
                  plannedAt, batch, idx, loaded, dlevel,
                  preStop, sentAfterStop >>
  /\ UNCHANGED intakeVars
  /\ UNCHANGED pureVars

CanScheduleRetry_Inclusive(retry_count, max_retries) == retry_count <= max_retries

\* the else branch: the sender returned failure
CanScheduleRetry(retry_count, max_retries) == retry_count < max_retries

FailedRow(row, max_retries, at) ==
  LET count == row.retry_count + 1
  IN IF CanScheduleRetry(count, max_retries)
       THEN [ status |-> "scheduled", retry_count |-> count,
              scheduled_at |-> at + RetryMinutes ]
       ELSE [ status |-> "failed", retry_count |-> count,
              scheduled_at |-> row.scheduled_at ]

SentRow(row) == [row EXCEPT !.status = "sent"]

SenderReturns(d, success) ==
  /\ dpc[d] = "sending"
  /\ LET s == batch[d][idx[d]]
         t == steps[s].ticket_id
     IN IF success
          THEN /\ local' = [local EXCEPT ![d][s] = SentRow(@)]
               /\ dlevel' = [dlevel EXCEPT ![d][t].level =
                                Max(@, steps[s].step_number)]
               /\ sentAfterStop' =
                    IF tickets[t].escalation_stopped
                      THEN sentAfterStop \cup {s} ELSE sentAfterStop
          ELSE /\ local' = [local EXCEPT ![d][s] =
                               FailedRow(@, steps[s].max_retries, now)]
               /\ UNCHANGED << dlevel, sentAfterStop >>
  /\ idx' = [idx EXCEPT ![d] = @ + 1]
  /\ dpc' = [dpc EXCEPT ![d] = "loop"]
  /\ UNCHANGED << now, tickets, steps, directory, smsAlerts, startRet, stopRet,
                  plannedAt, batch, loaded, sends, preStop >>
  /\ UNCHANGED intakeVars
  /\ UNCHANGED pureVars

\* the except handler: whatever the try block has assigned, the step is
\* FAILED; retry_count and scheduled_at stay as they are
ExceptionRow(row) == [row EXCEPT !.status = "failed"]

\* the sender has returned, the branch for its result has run, and
\* log_escalation_event raises
StepRaises(d, success) ==
  /\ dpc[d] = "sending"
  /\ LET s == batch[d][idx[d]]
         t == steps[s].ticket_id
     IN IF success
          THEN /\ local' = [local EXCEPT ![d][s] = ExceptionRow(SentRow(@))]
               /\ dlevel' = [dlevel EXCEPT ![d][t].level =
                                Max(@, steps[s].step_number)]
          ELSE /\ local' = [local EXCEPT ![d][s] =
                               ExceptionRow(FailedRow(@, steps[s].max_retries, now))]
               /\ UNCHANGED dlevel
  /\ idx' = [idx EXCEPT ![d] = @ + 1]
  /\ dpc' = [dpc EXCEPT ![d] = "loop"]
  /\ UNCHANGED << now, tickets, steps, directory, smsAlerts, startRet, stopRet,
                  plannedAt, batch, loaded, sends, preStop, sentAfterStop >>
  /\ UNCHANGED intakeVars
  /\ UNCHANGED pureVars

\* leaving the session block: the unit of work writes the changed columns
Flushed(d, s) ==
  IF s \in DOMAIN local[d]
    THEN [ steps[s] EXCEPT
             !.status = IF local[d][s].status # loaded[d][s].status
                          THEN local[d][s].status ELSE @,
             !.retry_count = IF local[d][s].retry_count # loaded[d][s].retry_count
                               THEN local[d][s].retry_count ELSE @,
             !.scheduled_at = IF local[d][s].scheduled_at # loaded[d][s].scheduled_at
                                THEN local[d][s].scheduled_at ELSE @ ]
    ELSE steps[s]

FlushedTicket(d, t) ==
  IF t \in DOMAIN dlevel[d] /\ dlevel[d][t].level # dlevel[d][t].loaded
    THEN [tickets[t] EXCEPT !.escalation_level = dlevel[d][t].level]
    ELSE tickets[t]

CommitCycle(d) ==
  /\ dpc[d] = "loop"
  /\ idx[d] > Len(batch[d])
  /\ steps' = [s \in StepIds |-> Flushed(d, s)]
  /\ tickets' = [t \in TicketIds |-> FlushedTicket(d, t)]
  /\ dpc' = [dpc EXCEPT ![d] = "idle"]
  /\ batch' = [batch EXCEPT ![d] = << >>]
  /\ idx' = [idx EXCEPT ![d] = 1]
  /\ loaded' = [loaded EXCEPT ![d] = << >>]
  /\ local' = [local EXCEPT ![d] = << >>]
  /\ dlevel' = [dlevel EXCEPT ![d] = << >>]
  /\ UNCHANGED << now, directory, smsAlerts, startRet, stopRet, plannedAt, sends, preStop, sentAfterStop >>
  /\ UNCHANGED intakeVars
  /\ UNCHANGED pureVars

\* time passes
Tick ==
  /\ \A d \in Dispatchers : dpc[d] = "idle"
  /\ now + TickMinutes <= MaxTime
  /\ now' = now + TickMinutes
  /\ UNCHANGED << tickets, steps, directory, smsAlerts, startRet, stopRet, plannedAt,
                  dpc, batch, idx, loaded, local, dlevel, sends, preStop, sentAfterStop >>
  /\ UNCHANGED intakeVars
  /\ UNCHANGED pureVars

(***************************************************************************)
(* The message-intake pipeline (services/pipeline.py)                      *)
(***************************************************************************)
MaxRuns == 2
MaxDay == 1

Msgs == {"m1", "m2"}
Workers == {"w1", "w2"}

\* settings.ENABLE_ESCALATION
EnableEscalation == TRUE

\* a fetched message: whether parse_graph_message accepts it, and the
\* ClassificationResult of its text (confidence in percent)
Unparseable ==
  [ parses |-> FALSE, category |-> "unknown", priority |-> "normal",
    confidence |-> 0, is_aog |-> FALSE ]
GeneralLow ==
  [ parses |-> TRUE, category |-> "general", priority |-> "normal",
    confidence |-> 40, is_aog |-> FALSE ]
ServiceNormal ==
  [ parses |-> TRUE, category |-> "service", priority |-> "normal",
    confidence |-> 60, is_aog |-> FALSE ]
AogCritical ==
  [ parses |-> TRUE, category |-> "aog", priority |-> "critical",
    confidence |-> 95, is_aog |-> TRUE ]

MsgKinds == { Unparseable, GeneralLow, ServiceNormal, AogCritical }

\* classifications on either side of the thresholds of _is_service_request
Classified(category, confidence) ==
  [ parses |-> TRUE, category |-> category,
    priority |-> IF category = "aog" THEN "critical" ELSE "normal",
    confidence |-> confidence, is_aog |-> (category = "aog") ]

GateKinds ==
  MsgKinds \cup
  { Classified("maintenance", 70), Classified("unknown", 95),
    Classified("invoice", 70), Classified("invoice", 71),
    Classified("general", 60), Classified("general", 80),
    Classified("general", 81) }

NoState == [ exists |-> FALSE, status |-> "none", error_count |-> 0 ]
NoRow == [ status |-> "none", error_count |-> 0 ]
NoTicket == [ id |-> -1, ticket_number |-> << -1, 0 >> ]

\* MessageState.is_complete
is_complete_WithoutFailed(status) == status \in {"completed", "skipped"}

is_complete(status) == status \in {"completed", "failed", "skipped"}

\* EmailProcessingPipeline._update_message_state
update_message_state(state, status, with_error) ==
  [ state EXCEPT !.status = status,
                 !.error_count = IF with_error THEN @ + 1 ELSE @ ]

is_service_request_AtThreshold(c) ==
  IF c.category = "general" /\ c.confidence < 60 THEN FALSE
  ELSE IF c.is_aog THEN TRUE
  ELSE IF c.category \in {"service", "maintenance"} THEN TRUE
  ELSE IF c.category = "invoice" /\ c.confidence >= 70 THEN TRUE
  ELSE IF c.category = "general" /\ c.confidence >= 80 THEN TRUE
  ELSE FALSE

\* EmailProcessingPipeline._is_service_request
is_service_request(c) ==
  IF c.category = "general" /\ c.confidence < 60 THEN FALSE
  ELSE IF c.is_aog THEN TRUE
  ELSE IF c.category \in {"service", "maintenance"} THEN TRUE
  ELSE IF c.category = "invoice" /\ c.confidence > 70 THEN TRUE
  ELSE IF c.category = "general" /\ c.confidence > 80 THEN TRUE
  ELSE FALSE

\* another session has flushed rows of the same message_id and not yet
\* committed: a write of this session to those rows waits for it
Blocked(w) ==
  \E o \in Workers \ {w} : wflushed[o] /\ wmsg[o] = wmsg[w]

RowConflict_NoConstraint(w) == FALSE

\* the INSERTs of the session violate unique(message_id) of message_states
\* or of email_messages
RowConflict(w) ==
  \/ ~wstate[w].exists /\ msgStates[wmsg[w]].status # "none"
  \/ wemail[w] /\ wmsg[w] \in emailRows

\* the INSERT of the session's ticket violates unique(ticket_number)
NumberConflict(w) ==
  /\ wticket[w] # NoTicket
  /\ \E t \in TicketIds : tickets[t].ticket_number = wticket[w].ticket_number

\* the run ends: nothing of the session is kept
EndRun(w, result) ==
  /\ wpc' = [wpc EXCEPT ![w] = "idle"]
  /\ wstate' = [wstate EXCEPT ![w] = NoState]
  /\ wemail' = [wemail EXCEPT ![w] = FALSE]
  /\ wflushed' = [wflushed EXCEPT ![w] = FALSE]
  /\ wticket' = [wticket EXCEPT ![w] = NoTicket]
  /\ wresult' = [wresult EXCEPT ![w] = result]

\* lines 171-177: the idempotency check on the committed MessageState
CheckProcessed(w, m) ==
  /\ wpc[w] = "idle"
  /\ started[w] < MaxRuns
  /\ started' = [started EXCEPT ![w] = @ + 1]
  /\ wmsg' = [wmsg EXCEPT ![w] = m]
  /\ IF msgStates[m].status # "none" /\ is_complete(msgStates[m].status)
       THEN /\ wresult' = [wresult EXCEPT ![w] = "already_processed"]
            /\ UNCHANGED wpc
       ELSE /\ wpc' = [wpc EXCEPT ![w] = "create_state"]
            /\ wresult' = [wresult EXCEPT ![w] = "running"]
  /\ UNCHANGED << today, msgData, msgStates, emailRows, wstate, wemail,
                  wflushed, wticket, conf, markRead, ticketsMade, planCalls >>
  /\ UNCHANGED escVars
  /\ UNCHANGED mailbox
  /\ UNCHANGED pureVars

\* _create_or_update_message_state: a second read of the committed row
CreateOrUpdateState(w) ==
  /\ wpc[w] = "create_state"
  /\ LET row == msgStates[wmsg[w]]
     IN wstate' = [wstate EXCEPT ![w] =
          IF row.status # "none"
            THEN [ exists |-> TRUE, status |-> "parsing",
                   error_count |-> row.error_count ]
            ELSE [ exists |-> FALSE, status |-> "parsing", error_count |-> 0 ]]
  /\ wpc' = [wpc EXCEPT ![w] = "parse"]
  /\ UNCHANGED << today, msgData, msgStates, emailRows, wmsg, wemail,
                  wflushed, wticket, wresult, started, conf, markRead,
                  ticketsMade, planCalls >>
  /\ UNCHANGED escVars
  /\ UNCHANGED mailbox
  /\ UNCHANGED pureVars

\* _parse_email_message, _classify_email and the decision gate
ParseAndClassify(w) ==
  /\ wpc[w] = "parse"
  /\ LET data == msgData[wmsg[w]]
     IN IF ~data.parses
          THEN /\ wstate' = [wstate EXCEPT ![w] =
                    update_message_state(@, "failed", TRUE)]
               /\ wpc' = [wpc EXCEPT ![w] = "commit"]
               /\ wresult' = [wresult EXCEPT ![w] = "parse_failed"]
               /\ UNCHANGED wemail
          ELSE /\ wemail' = [wemail EXCEPT ![w] = TRUE]
               /\ UNCHANGED wresult
               /\ IF ~is_service_request(data)
                    THEN /\ wstate' = [wstate EXCEPT ![w] =
                              update_message_state(@, "classifying", FALSE)]
                         /\ wpc' = [wpc EXCEPT ![w] = "skip"]
                    ELSE /\ wstate' = [wstate EXCEPT ![w] =
                              update_message_state(@, "creating_ticket", FALSE)]
                         /\ wpc' = [wpc EXCEPT ![w] = "ticket"]
  /\ UNCHANGED << today, msgData, msgStates, emailRows, wmsg, wflushed,
                  wticket, started, conf, markRead, ticketsMade, planCalls >>
  /\ UNCHANGED escVars
  /\ UNCHANGED mailbox
  /\ UNCHANGED pureVars

\* lines 213-219: not a service request
SkipMessage(w) ==
  /\ wpc[w] = "skip"
  /\ markRead' = [markRead EXCEPT ![wmsg[w]] = @ + 1]
  /\ wstate' = [wstate EXCEPT ![w] = update_message_state(@, "skipped", TRUE)]
  /\ wresult' = [wresult EXCEPT ![w] = "not_service_request"]
  /\ wpc' = [wpc EXCEPT ![w] = "commit"]
  /\ UNCHANGED << today, msgData, msgStates, emailRows, wmsg, wemail,
                  wflushed, wticket, started, conf, ticketsMade, planCalls >>
  /\ UNCHANGED escVars
  /\ UNCHANGED mailbox
  /\ UNCHANGED pureVars

\* _generate_ticket_number: count of the tickets created today, plus one
\* the SLA tables of _calculate_response_sla and _calculate_resolution_sla,
\* in minutes
ResponseCritical == 15
ResponseHigh == 60
ResponseNormal == 240
ResponseLow == 480
ResolutionCritical == 120
ResolutionHigh == 480
ResolutionNormal == 1440
ResolutionLow == 2880

calculate_response_sla_LowForNormal(created_at, priority) ==
  IF priority = "critical" THEN created_at + ResponseCritical
  ELSE IF priority = "high" THEN created_at + ResponseHigh
  ELSE created_at + ResponseLow

calculate_response_sla(created_at, priority) ==
  IF priority = "critical" THEN created_at + ResponseCritical
  ELSE IF priority = "high" THEN created_at + ResponseHigh
  ELSE IF priority = "normal" THEN created_at + ResponseNormal
  ELSE created_at + ResponseLow

calculate_resolution_sla(created_at, priority) ==
  IF priority = "critical" THEN created_at + ResolutionCritical
  ELSE IF priority = "high" THEN created_at + ResolutionHigh
  ELSE IF priority = "normal" THEN created_at + ResolutionNormal
  ELSE created_at + ResolutionLow

TicketsToday == {t \in TicketIds : tickets[t].created_day >= today}

generate_ticket_number == << today, Cardinality(TicketsToday) + 1 >>

\* _create_ticket: the select of _generate_ticket_number first flushes the
\* session (MessageState and EmailMessage), then the Ticket is built; until
\* it is inserted its id (0 here) is the id of no row of the table
CreateTicket(w) ==
  /\ wpc[w] = "ticket"
  /\ ~Blocked(w)
  /\ IF RowConflict(w)
       THEN /\ EndRun(w, "exception")
            /\ UNCHANGED ticketsMade
       ELSE /\ wflushed' = [wflushed EXCEPT ![w] = TRUE]
            /\ wticket' = [wticket EXCEPT ![w] =
                 [ id |-> 0, ticket_number |-> generate_ticket_number,
                   message_id |-> wmsg[w],
                   priority |-> msgData[wmsg[w]].priority,
                   response_due_at |->
                     calculate_response_sla(now, msgData[wmsg[w]].priority),
                   resolution_due_at |->
                     calculate_resolution_sla(now, msgData[wmsg[w]].priority) ]]
            /\ ticketsMade' = [ticketsMade EXCEPT ![wmsg[w]] = @ + 1]
            /\ wstate' = [wstate EXCEPT ![w] =
                 update_message_state(@, "sending_confirmation", FALSE)]
            /\ wpc' = [wpc EXCEPT ![w] = "confirm"]
            /\ UNCHANGED << wemail, wresult >>
  /\ UNCHANGED << today, msgData, msgStates, emailRows, wmsg, started, conf,
                  markRead, planCalls >>
  /\ UNCHANGED escVars
  /\ UNCHANGED mailbox
  /\ UNCHANGED pureVars

\* _send_customer_confirmation
SendConfirmation(w) ==
  /\ wpc[w] = "confirm"
  /\ conf' = [conf EXCEPT ![wmsg[w]] = @ + 1]
  /\ wstate' = [wstate EXCEPT ![w] =
       update_message_state(@, "scheduling_escalation", FALSE)]
  /\ wpc' = [wpc EXCEPT ![w] = "escalate"]
  /\ UNCHANGED << today, msgData, msgStates, emailRows, wmsg, wemail,
                  wflushed, wticket, wresult, started, markRead, ticketsMade,
                  planCalls >>
  /\ UNCHANGED escVars
  /\ UNCHANGED mailbox
  /\ UNCHANGED pureVars

\* lines 255-274: start_escalation opens a session of its own and looks the
\* ticket up by id among the committed rows; the ticket of this session is
\* not committed yet.  Then mark_read and COMPLETED.
EscalateAndComplete(w) ==
  /\ wpc[w] = "escalate"
  /\ LET id == wticket[w].id
         escalation_started ==
           /\ EnableEscalation
           /\ id \in TicketIds
           /\ ~tickets[id].escalation_stopped
           /\ directory # << >>
         created == IF escalation_started
                      THEN create_escalation_steps(id, directory, now)
                      ELSE << >>
     IN /\ steps' = steps \o created
        /\ sends' = sends \o [i \in 1 .. Len(created) |-> 0]
  /\ planCalls' = [planCalls EXCEPT ![wmsg[w]] =
       IF EnableEscalation THEN @ + 1 ELSE @]
  /\ markRead' = [markRead EXCEPT ![wmsg[w]] = @ + 1]
  /\ wstate' = [wstate EXCEPT ![w] = update_message_state(@, "completed", FALSE)]
  /\ wresult' = [wresult EXCEPT ![w] = "processed"]
  /\ wpc' = [wpc EXCEPT ![w] = "commit"]
  /\ UNCHANGED << today, msgData, msgStates, emailRows, wmsg, wemail,
                  wflushed, wticket, started, conf, ticketsMade >>
  /\ UNCHANGED << now, tickets, directory, smsAlerts, startRet, stopRet, plannedAt, dpc,
                  batch, idx, loaded, local, dlevel, preStop, sentAfterStop >>
  /\ UNCHANGED mailbox
  /\ UNCHANGED pureVars

\* leaving the session block: flush what is left and commit, or roll back
\* when a unique constraint is violated
CommittedTicket(w) ==
  [ ticket_number |-> wticket[w].ticket_number,
    message_id |-> wticket[w].message_id,
    priority |-> wticket[w].priority,
    response_due_at |-> wticket[w].response_due_at,
    resolution_due_at |-> wticket[w].resolution_due_at,
    created_day |-> today, created_at |-> now,
    escalation_stopped |-> FALSE, escalation_stopped_reason |-> "none",
    escalation_level |-> 0 ]

CommitRun(w) ==
  /\ wpc[w] = "commit"
  /\ ~Blocked(w)
  /\ IF (~wflushed[w] /\ RowConflict(w)) \/ NumberConflict(w)
       THEN /\ EndRun(w, "exception")
            /\ UNCHANGED << msgStates, emailRows, tickets, startRet, stopRet, plannedAt >>
       ELSE /\ msgStates' = [msgStates EXCEPT ![wmsg[w]] =
                 [ status |-> wstate[w].status,
                   error_count |-> wstate[w].error_count ]]
            /\ emailRows' = IF wemail[w] THEN emailRows \cup {wmsg[w]}
                            ELSE emailRows
            /\ IF wticket[w] # NoTicket
                 THEN /\ tickets' = Append(tickets, CommittedTicket(w))
                      /\ startRet' = Append(startRet, "false")
                      /\ stopRet' = Append(stopRet, << >>)
                      /\ plannedAt' = Append(plannedAt, -1)
                 ELSE UNCHANGED << tickets, startRet, stopRet, plannedAt >>
            /\ EndRun(w, wresult[w])
  /\ UNCHANGED << today, msgData, wmsg, started, conf, markRead, ticketsMade,
                  planCalls >>
  /\ UNCHANGED << now, steps, directory, smsAlerts, dpc, batch, idx, loaded,
                  local, dlevel, sends, preStop, sentAfterStop >>
  /\ UNCHANGED mailbox
  /\ UNCHANGED pureVars

\* midnight UTC passes
NextDay ==
  /\ today < MaxDay
  /\ today' = today + 1
  /\ UNCHANGED << msgData, msgStates, emailRows, wpc, wmsg, wstate, wemail,
                  wflushed, wticket, wresult, started, conf, markRead,
                  ticketsMade, planCalls >>
  /\ UNCHANGED escVars
  /\ UNCHANGED mailbox
  /\ UNCHANGED pureVars

\* no message has been fetched and no run is in progress
PipelineIdle ==
  /\ today = 0
  /\ msgData = [m \in Msgs |-> Unparseable]
  /\ msgStates = [m \in Msgs |-> NoRow]
  /\ emailRows = {}
  /\ wpc = [w \in Workers |-> "idle"]
  /\ wmsg = [w \in Workers |-> "m1"]
  /\ wstate = [w \in Workers |-> NoState]
  /\ wemail = [w \in Workers |-> FALSE]
  /\ wflushed = [w \in Workers |-> FALSE]
  /\ wticket = [w \in Workers |-> NoTicket]
  /\ wresult = [w \in Workers |-> "none"]
  /\ started = [w \in Workers |-> 0]
  /\ conf = [m \in Msgs |-> 0]
  /\ markRead = [m \in Msgs |-> 0]
  /\ ticketsMade = [m \in Msgs |-> 0]
  /\ planCalls = [m \in Msgs |-> 0]
  /\ mailbox = NoMailbox

IntakeIdle ==
  /\ PipelineIdle
  /\ call = NoCall
  /\ ret = NoReturn

\* resolved contacts: a named contact, an internal e-mail address
BothContact == [email |-> TRUE, phone |-> TRUE]
EmailContact == [email |-> TRUE, phone |-> FALSE]

InitIntake ==
  /\ now = 0
  /\ tickets = << >>
  /\ steps = << >>
  /\ directory = << BothContact >>
  /\ smsAlerts = TRUE
  /\ startRet = << >>
  /\ stopRet = << >>
  /\ plannedAt = << >>
  /\ dpc = [d \in Dispatchers |-> "idle"]
  /\ batch = [d \in Dispatchers |-> << >>]
  /\ idx = [d \in Dispatchers |-> 1]
  /\ loaded = [d \in Dispatchers |-> << >>]
  /\ local = [d \in Dispatchers |-> << >>]
  /\ dlevel = [d \in Dispatchers |-> << >>]
  /\ sends = << >>
  /\ preStop = {}
  /\ sentAfterStop = {}
  /\ today = 0
  /\ msgData \in {f \in [Msgs -> GateKinds] : f["m2"] \in MsgKinds}
  /\ msgStates = [m \in Msgs |-> NoRow]
  /\ emailRows = {}
  /\ wpc = [w \in Workers |-> "idle"]
  /\ wmsg = [w \in Workers |-> "m1"]
  /\ wstate = [w \in Workers |-> NoState]
  /\ wemail = [w \in Workers |-> FALSE]
  /\ wflushed = [w \in Workers |-> FALSE]
  /\ wticket = [w \in Workers |-> NoTicket]
  /\ wresult = [w \in Workers |-> "none"]
  /\ started = [w \in Workers |-> 0]
  /\ conf = [m \in Msgs |-> 0]
  /\ markRead = [m \in Msgs |-> 0]
  /\ ticketsMade = [m \in Msgs |-> 0]
  /\ planCalls = [m \in Msgs |-> 0]
  /\ mailbox = NoMailbox
  /\ call = NoCall
  /\ ret = NoReturn

NextIntake ==
  \/ \E w \in Workers, m \in Msgs : CheckProcessed(w, m)
  \/ \E w \in Workers : CreateOrUpdateState(w)
  \/ \E w \in Workers : ParseAndClassify(w)
  \/ \E w \in Workers : SkipMessage(w)
  \/ \E w \in Workers : CreateTicket(w)
  \/ \E w \in Workers : SendConfirmation(w)
  \/ \E w \in Workers : EscalateAndComplete(w)
  \/ \E w \in Workers : CommitRun(w)
  \/ NextDay

SpecIntake == InitIntake /\ [][NextIntake]_vars

(***************************************************************************)
(* process_mailbox: one batch of fetched messages                          *)
(***************************************************************************)
\* what _fetch_unread_messages can return: message_ids, possibly repeated
Fetches ==
  UNION { [1 .. n -> Msgs] : n \in 0 .. MaxRuns }

\* the "status" of the dict a run returns; "raised" when it raises instead
ResultStatus(result) ==
  IF result = "processed" THEN "processed"
  ELSE IF result \in {"already_processed", "not_service_request"} THEN "skipped"
  ELSE IF result = "parse_failed" THEN "error"
  ELSE "raised"

\* the loop body after the run: without the inner handler an exception of
\* the run reaches the handler around the loop
AfterMessage_OuterHandlerOnly(mb, result) ==
  LET status == ResultStatus(result)
  IN  IF status = "processed"
        THEN [mb EXCEPT !.processed = @ + 1, !.done = @ + 1]
      ELSE IF status = "skipped"
        THEN [mb EXCEPT !.skipped = @ + 1, !.done = @ + 1]
      ELSE IF status = "error"
        THEN [mb EXCEPT !.errors = @ + 1, !.done = @ + 1]
      ELSE [mb EXCEPT !.errors = @ + 1, !.done = @ + 1, !.returned = TRUE]

\* lines 113-131: count the result of the run; an exception of the run is
\* caught per message and counted as an error
AfterMessage(mb, result) ==
  LET status == ResultStatus(result)
  IN  IF status = "processed"
        THEN [mb EXCEPT !.processed = @ + 1, !.done = @ + 1]
      ELSE IF status = "skipped"
        THEN [mb EXCEPT !.skipped = @ + 1, !.done = @ + 1]
      ELSE [mb EXCEPT !.errors = @ + 1, !.done = @ + 1]

\* the batch runs in worker "w1"
\* lines 106-111: the next message of the batch is handed to
\* _process_single_message
ProcessNextMessage ==
  /\ ~mailbox.returned
  /\ mailbox.done < Len(mailbox.fetched)
  /\ started["w1"] = mailbox.done
  /\ CheckProcessed("w1", mailbox.fetched[mailbox.done + 1])

\* lines 113-131: the run has ended and its result is counted
CountResult ==
  /\ ~mailbox.returned
  /\ wpc["w1"] = "idle"
  /\ started["w1"] = mailbox.done + 1
  /\ mailbox' = AfterMessage(mailbox, wresult["w1"])
  /\ UNCHANGED << today, msgData, msgStates, emailRows, wpc, wmsg, wstate,
                  wemail, wflushed, wticket, wresult, started, conf, markRead,
                  ticketsMade, planCalls >>
  /\ UNCHANGED escVars
  /\ UNCHANGED pureVars

\* lines 100-102 and 139: no message, or no message left
ReturnResult ==
  /\ ~mailbox.returned
  /\ mailbox.done = Len(mailbox.fetched)
  /\ started["w1"] = mailbox.done
  /\ mailbox' = [mailbox EXCEPT !.returned = TRUE]
  /\ UNCHANGED << today, msgData, msgStates, emailRows, wpc, wmsg, wstate,
                  wemail, wflushed, wticket, wresult, started, conf, markRead,
                  ticketsMade, planCalls >>
  /\ UNCHANGED escVars
  /\ UNCHANGED pureVars

InitMailbox ==
  /\ now = 0
  /\ tickets = << >>
  /\ steps = << >>
  /\ directory = << BothContact >>
  /\ smsAlerts = TRUE
  /\ startRet = << >>
  /\ stopRet = << >>
  /\ plannedAt = << >>
  /\ dpc = [d \in Dispatchers |-> "idle"]
  /\ batch = [d \in Dispatchers |-> << >>]
  /\ idx = [d \in Dispatchers |-> 1]
  /\ loaded = [d \in Dispatchers |-> << >>]
  /\ local = [d \in Dispatchers |-> << >>]
  /\ dlevel = [d \in Dispatchers |-> << >>]
  /\ sends = << >>
  /\ preStop = {}
  /\ sentAfterStop = {}
  /\ today = 0
  /\ msgData \in [Msgs -> MsgKinds]
  /\ msgStates = [m \in Msgs |-> NoRow]
  /\ emailRows = {}
  /\ wpc = [w \in Workers |-> "idle"]
  /\ wmsg = [w \in Workers |-> "m1"]
  /\ wstate = [w \in Workers |-> NoState]
  /\ wemail = [w \in Workers |-> FALSE]
  /\ wflushed = [w \in Workers |-> FALSE]
  /\ wticket = [w \in Workers |-> NoTicket]
  /\ wresult = [w \in Workers |-> "none"]
  /\ started = [w \in Workers |-> 0]
  /\ conf = [m \in Msgs |-> 0]
  /\ markRead = [m \in Msgs |-> 0]
  /\ ticketsMade = [m \in Msgs |-> 0]
  /\ planCalls = [m \in Msgs |-> 0]
  /\ \E f \in Fetches : mailbox = [NoMailbox EXCEPT !.fetched = f]
  /\ call = NoCall
  /\ ret = NoReturn

\* worker "w2" is a run outside the batch: another poll of the same mailbox
NextMailbox ==
  \/ ProcessNextMessage
  \/ CountResult
  \/ ReturnResult
  \/ \E m \in Msgs : CheckProcessed("w2", m)
  \/ \E w \in Workers : CreateOrUpdateState(w)
  \/ \E w \in Workers : ParseAndClassify(w)
  \/ \E w \in Workers : SkipMessage(w)
  \/ \E w \in Workers : CreateTicket(w)
  \/ \E w \in Workers : SendConfirmation(w)
  \/ \E w \in Workers : EscalateAndComplete(w)
  \/ \E w \in Workers : CommitRun(w)
  \/ NextDay

SpecMailbox == InitMailbox /\ [][NextMailbox]_vars

(***************************************************************************)
(* One pipeline worker while time passes: the deadlines of created tickets *)
(***************************************************************************)
\* service requests of every priority the classifier can assign
SlaKinds == { [ServiceNormal EXCEPT !.priority = p] : p \in Priorities }

InitSla ==
  /\ now = 0
  /\ tickets = << >>
  /\ steps = << >>
  /\ directory = << BothContact >>
  /\ smsAlerts = TRUE
  /\ startRet = << >>
  /\ stopRet = << >>
  /\ plannedAt = << >>
  /\ dpc = [d \in Dispatchers |-> "idle"]
  /\ batch = [d \in Dispatchers |-> << >>]
  /\ idx = [d \in Dispatchers |-> 1]
  /\ loaded = [d \in Dispatchers |-> << >>]
  /\ local = [d \in Dispatchers |-> << >>]
  /\ dlevel = [d \in Dispatchers |-> << >>]
  /\ sends = << >>
  /\ preStop = {}
  /\ sentAfterStop = {}
  /\ today = 0
  /\ msgData \in [Msgs -> SlaKinds]
  /\ msgStates = [m \in Msgs |-> NoRow]
  /\ emailRows = {}
  /\ wpc = [w \in Workers |-> "idle"]
  /\ wmsg = [w \in Workers |-> "m1"]
  /\ wstate = [w \in Workers |-> NoState]
  /\ wemail = [w \in Workers |-> FALSE]
  /\ wflushed = [w \in Workers |-> FALSE]
  /\ wticket = [w \in Workers |-> NoTicket]
  /\ wresult = [w \in Workers |-> "none"]
  /\ started = [w \in Workers |-> 0]
  /\ conf = [m \in Msgs |-> 0]
  /\ markRead = [m \in Msgs |-> 0]
  /\ ticketsMade = [m \in Msgs |-> 0]
  /\ planCalls = [m \in Msgs |-> 0]
  /\ mailbox = NoMailbox
  /\ call = NoCall
  /\ ret = NoReturn

NextSla ==
  \/ \E m \in Msgs : CheckProcessed("w1", m)
  \/ CreateOrUpdateState("w1")
  \/ ParseAndClassify("w1")
  \/ CreateTicket("w1")
  \/ SendConfirmation("w1")
  \/ EscalateAndComplete("w1")
  \/ CommitRun("w1")
  \/ Tick

SpecSla == InitSla /\ [][NextSla]_vars

(***************************************************************************)
(* The escalation engine over one persisted ticket                         *)
(***************************************************************************)
ContactLists ==
  UNION { [1 .. n -> ContactKinds] : n \in 0 .. MaxContacts }

PersistedTicket(priority) ==
  [ ticket_number |-> << 0, 1 >>, message_id |-> "m1", priority |-> priority,
    response_due_at |-> calculate_response_sla(0, priority),
    resolution_due_at |-> calculate_resolution_sla(0, priority),
    created_day |-> 0, created_at |-> 0,
    escalation_stopped |-> FALSE, escalation_stopped_reason |-> "none",
    escalation_level |-> 0 ]

\* the contact lists the dispatcher is exercised with
EscDirectories == { << >>, << BothContact >>, << EmailContact, BothContact >> }

InitEsc ==
  /\ now = 0
  /\ \E p \in Priorities : tickets = << PersistedTicket(p) >>
  /\ steps = << >>
  /\ directory \in EscDirectories
  /\ smsAlerts \in BOOLEAN
  /\ startRet = << "none" >>
  /\ stopRet = << << >> >>
  /\ plannedAt = << -1 >>
  /\ dpc = [d \in Dispatchers |-> "idle"]
  /\ batch = [d \in Dispatchers |-> << >>]
  /\ idx = [d \in Dispatchers |-> 1]
  /\ loaded = [d \in Dispatchers |-> << >>]
  /\ local = [d \in Dispatchers |-> << >>]
  /\ dlevel = [d \in Dispatchers |-> << >>]
  /\ sends = << >>
  /\ preStop = {}
  /\ sentAfterStop = {}
  /\ IntakeIdle

NextEsc ==
  \/ \E t \in TicketIds : StartEscalation(t)
  \/ \E t \in TicketIds : StopEscalation(t)
  \/ \E d \in Dispatchers : SelectPending(d)
  \/ \E d \in Dispatchers : ExecuteStep(d)
  \/ \E d \in Dispatchers, success \in BOOLEAN : SenderReturns(d, success)
  \/ \E d \in Dispatchers : CommitCycle(d)
  \/ Tick

SpecEsc == InitEsc /\ [][NextEsc]_vars

(***************************************************************************)
(* The escalation engine with one poll cycle at a time (the scheduler job  *)
(* alone, max_instances=1)                                                 *)
(***************************************************************************)
NextEscSeq ==
  \/ \E t \in TicketIds : StartEscalation(t)
  \/ \E t \in TicketIds : StopEscalation(t)
  \/ SelectPending("scheduler")
  \/ ExecuteStep("scheduler")
  \/ \E success \in BOOLEAN : SenderReturns("scheduler", success)
  \/ CommitCycle("scheduler")
  \/ Tick

SpecEscSeq == InitEsc /\ [][NextEscSeq]_vars

(***************************************************************************)
(* One poll cycle at a time, under the scheduler's interval trigger: the   *)
(* job is started again and again, every started cycle runs to its commit, *)
(* and time advances                                                       *)
(***************************************************************************)
FairnessEsc ==
  /\ WF_vars(SelectPending("scheduler"))
  /\ WF_vars(ExecuteStep("scheduler"))
  /\ WF_vars(\E success \in BOOLEAN : SenderReturns("scheduler", success))
  /\ WF_vars(CommitCycle("scheduler"))
  /\ WF_vars(Tick)

SpecEscFair == InitEsc /\ [][NextEscSeq]_vars /\ FairnessEsc

(***************************************************************************)
(* One poll cycle at a time, with steps whose execution raises             *)
(***************************************************************************)
NextEscRaise ==
  \/ \E t \in TicketIds : StartEscalation(t)
  \/ \E t \in TicketIds : StopEscalation(t)
  \/ SelectPending("scheduler")
  \/ ExecuteStep("scheduler")
  \/ \E success \in BOOLEAN : SenderReturns("scheduler", success)
  \/ \E success \in BOOLEAN : StepRaises("scheduler", success)
  \/ CommitCycle("scheduler")
  \/ Tick

SpecEscRaise == InitEsc /\ [][NextEscRaise]_vars

(***************************************************************************)
(* The planner alone, over every priority and contact list                 *)
(***************************************************************************)
InitPlan ==
  /\ now = 0
  /\ \E p \in Priorities : tickets = << PersistedTicket(p) >>
  /\ steps = << >>
  /\ directory \in ContactLists
  /\ smsAlerts \in BOOLEAN
  /\ startRet = << "none" >>
  /\ stopRet = << << >> >>
  /\ plannedAt = << -1 >>
  /\ dpc = [d \in Dispatchers |-> "idle"]
  /\ batch = [d \in Dispatchers |-> << >>]
  /\ idx = [d \in Dispatchers |-> 1]
  /\ loaded = [d \in Dispatchers |-> << >>]
  /\ local = [d \in Dispatchers |-> << >>]
  /\ dlevel = [d \in Dispatchers |-> << >>]
  /\ sends = << >>
  /\ preStop = {}
  /\ sentAfterStop = {}
  /\ IntakeIdle

NextPlan ==
  \/ \E t \in TicketIds : StartEscalation(t)
  \/ \E t \in TicketIds : StopEscalation(t)
  \/ Tick

SpecPlan == InitPlan /\ [][NextPlan]_vars

(***************************************************************************)
(* The planner invoked any number of times for the same ticket             *)
(***************************************************************************)
NextReplan ==
  \/ \E t \in TicketIds : StartEscalation(t)
  \/ \E t \in TicketIds : RestartEscalation(t)
  \/ \E t \in TicketIds : StopEscalation(t)
  \/ \E t \in TicketIds : RestopEscalation(t)
  \/ Tick

SpecReplan == InitPlan /\ [][NextReplan]_vars

(***************************************************************************)
(* RulesClassifier (classifier/rules_engine.py) over texts of a small       *)
(* alphabet.  A keyword with a letter outside the alphabet is written       *)
(* Other: it occurs in no text.  Confidences are counted in 1/8400.         *)
(***************************************************************************)
MaxSubjectLen == 3
MaxBodyLen == 1

ConfidenceScale == 84
Percent(p) == p * ConfidenceScale

Chars == {"a", "o", "g", "A", "m", "x"}

\* str.lower(), per character
lower(c) == IF c = "A" THEN "a" ELSE c

Lower(s) == [i \in 1 .. Len(s) |-> lower(s[i])]

\* kw in text
Contains(text, kw) ==
  \E i \in 0 .. (Len(text) - Len(kw)) : SubSeq(text, i + 1, i + Len(kw)) = kw

Strings(n) == UNION { [1 .. k -> Chars] : k \in 0 .. n }

Other == << "#" >>
Aog == << "a", "o", "g" >>
Mx == << "m", "x" >>

\* text = f"{subject} {body}".lower()
CombinedText(subject, body) == Lower(subject \o << " " >> \o body)

\* utils/validation.py
is_aog_keyword(text) ==
  \E kw \in {Aog, Other} : Contains(Lower(text), kw)

is_maintenance_keyword(text) ==
  \E kw \in {Other} : Contains(Lower(text), kw)

extract_priority_indicators(text) ==
  IF \E kw \in {Aog, Other} : Contains(Lower(text), kw) THEN "critical"
  ELSE IF \E kw \in {Other} : Contains(Lower(text), kw) THEN "high"
  ELSE "normal"

\* [kw for kw in keywords if kw.lower() in text]
KeywordMatches_CaseSensitive(keywords, text) ==
  {i \in 1 .. Len(keywords) : Contains(text, keywords[i])}

KeywordMatches(keywords, text) ==
  {i \in 1 .. Len(keywords) : Contains(text, Lower(keywords[i]))}

\* one of the two keyword conditions of _evaluate_rule_conditions; weight in
\* tenths, the result in 1/120
ConditionScore(keywords, text, weight) ==
  LET matches == Cardinality(KeywordMatches(keywords, text))
  IN IF matches > 0 THEN (12 * weight * matches) \div Len(keywords) ELSE 0

\* _evaluate_rule_conditions: total_score / max_possible_score, with
\* max_possible_score = 0.4 + 0.3
evaluate_rule_conditions(conditions, text) ==
  ( ( ConditionScore(conditions.subject_contains, text, 4)
      + ConditionScore(conditions.body_contains, text, 3) ) * 10 * 100 * ConfidenceScale )
    \div (120 * 7)

\* _get_default_rules
DefaultRules ==
  [ critical |-> << Aog, Other, Other, Other, Other, Other, Other, Other, Other >>,
    urgent   |-> << Other, Other, Other, Other, Other, Other, Other, Other, Other >>,
    categories |-> <<
      [ name |-> "AOG", priority |-> "critical",
        conditions |-> [ subject_contains |-> << Aog, Other, Other, Other >>,
                         body_contains |-> << Other, Other, Other, Other >> ] ],
      [ name |-> "Service", priority |-> "high",
        conditions |-> [ subject_contains |-> << Other, Other, Other, Other >>,
                         body_contains |-> << Other, Other, Other, Other >> ] ],
      [ name |-> "Maintenance", priority |-> "high",
        conditions |-> [ subject_contains |-> << Other, Mx, Other, Other >>,
                         body_contains |-> << Other, Other, Other, Other >> ] ],
      [ name |-> "General", priority |-> "normal",
        conditions |-> [ subject_contains |-> << Other, Other, Other >>,
                         body_contains |-> << Other, Other, Other >> ] ],
      [ name |-> "Invoice", priority |-> "normal",
        conditions |-> [ subject_contains |-> << Other, Other, Other >>,
                         body_contains |-> << Other, Other, Other, Other >> ] ] >> ]

\* a rules.yaml whose critical keywords are also category keywords, one of
\* them written with a capital
CustomRules ==
  [ critical |-> << Mx, << "A", "o" >> >>,
    urgent   |-> << << "g" >> >>,
    categories |-> <<
      [ name |-> "maintenance", priority |-> "high",
        conditions |-> [ subject_contains |-> << Mx >>,
                         body_contains |-> << Mx, << "m" >> >> ] ],
      [ name |-> "general", priority |-> "normal",
        conditions |-> [ subject_contains |-> << << "o" >> >>,
                         body_contains |-> << << "o" >>, Other >> ] ],
      [ name |-> "invoice", priority |-> "low",
        conditions |-> [ subject_contains |-> << << "x" >> >>,
                         body_contains |-> << << "x" >> >> ] ] >> ]

\* a rules.yaml without critical keywords
NoCriticalRules == [CustomRules EXCEPT !.critical = << >>]

\* a rules.yaml with two rules for the same category; _validate_rules
\* accepts it
DuplicateRules ==
  [ critical |-> << >>,
    urgent   |-> << << "g" >> >>,
    categories |-> <<
      [ name |-> "Maintenance", priority |-> "high",
        conditions |-> [ subject_contains |-> << Mx >>,
                         body_contains |-> << Mx >> ] ],
      [ name |-> "general", priority |-> "normal",
        conditions |-> [ subject_contains |-> << << "m" >> >>,
                         body_contains |-> << << "m" >> >> ] ],
      [ name |-> "maintenance", priority |-> "low",
        conditions |-> [ subject_contains |-> << << "x" >> >>,
                         body_contains |-> << << "x" >>, Other >> ] ] >> ]

RuleSets == {DefaultRules, CustomRules, NoCriticalRules, DuplicateRules}

\* rule_name.lower(), for the rule names of the rule sets
LowerName(name) ==
  IF name = "AOG" THEN "aog"
  ELSE IF name = "Service" THEN "service"
  ELSE IF name = "Maintenance" THEN "maintenance"
  ELSE IF name = "General" THEN "general"
  ELSE IF name = "Invoice" THEN "invoice"
  ELSE name

\* the score of every rule, in the order of the configuration
RuleScores(rules, text) ==
  [i \in 1 .. Len(rules.categories) |->
     [ name |-> LowerName(rules.categories[i].name),
       priority |-> rules.categories[i].priority,
       score |-> evaluate_rule_conditions(rules.categories[i].conditions, text) ]]

\* category_scores: a dict keyed by rule_name.lower(), filled by the rules
\* with score > 0. A key keeps the position of its first insertion and the
\* value of its last one.
CategoryScores(rules, text) ==
  LET positive == SelectSeq(RuleScores(rules, text), LAMBDA e : e.score > 0)
      firsts == { i \in 1 .. Len(positive) :
                    \A j \in 1 .. (i - 1) : positive[j].name # positive[i].name }
      key(n) == CHOOSE i \in firsts : Cardinality({j \in firsts : j < i}) = n - 1
      last(i) == CHOOSE k \in 1 .. Len(positive) :
                   /\ positive[k].name = positive[i].name
                   /\ \A j \in (k + 1) .. Len(positive) :
                        positive[j].name # positive[i].name
  IN [n \in 1 .. Cardinality(firsts) |-> positive[last(key(n))]]

\* max(category_scores.items(), key=score): the first of the highest
BestCategory(scores) ==
  LET best == CHOOSE i \in 1 .. Len(scores) :
                /\ \A j \in 1 .. Len(scores) : scores[j].score <= scores[i].score
                /\ \A j \in 1 .. (i - 1) : scores[j].score < scores[i].score
  IN scores[best]

Min(a, b) == IF a <= b THEN a ELSE b

AogResult ==
  [ category |-> "aog", priority |-> "critical", confidence |-> Percent(95),
    is_aog |-> TRUE ]

\* RulesClassifier.classify_email
classify_email(rules, subject, body) ==
  LET text == CombinedText(subject, body)
      aog_matches == KeywordMatches(rules.critical, text)
      urgent_matches == KeywordMatches(rules.urgent, text)
      confidence == IF urgent_matches # {} THEN Percent(30) ELSE 0
      category_scores == CategoryScores(rules, text)
  IN IF aog_matches # {} \/ is_aog_keyword(text) THEN AogResult
     ELSE IF category_scores = << >>
       THEN IF is_maintenance_keyword(text)
              THEN [ category |-> "service", priority |-> "normal",
                     confidence |-> Percent(60), is_aog |-> FALSE ]
              ELSE [ category |-> "general", priority |-> "normal",
                     confidence |-> Percent(40), is_aog |-> FALSE ]
     ELSE LET best == BestCategory(category_scores)
              category == IF best.name \in {"aog", "service", "maintenance",
                                            "general", "invoice"}
                            THEN best.name ELSE "general"
              priority == IF best.priority \in {"low", "normal", "high", "critical"}
                            THEN best.priority ELSE "normal"
          IN [ category |-> category,
               priority |-> IF extract_priority_indicators(text) = "critical"
                               /\ priority # "critical"
                              THEN "high" ELSE priority,
               confidence |-> Min(Percent(90), best.score + confidence),
               is_aog |-> (category = "aog") ]

\* one call of classify_email
ClassifyEmail ==
  /\ call.fn = "classify_email"
  /\ ~ret.returned
  /\ ret' = [ returned |-> TRUE,
              value |-> classify_email(call.rules, call.subject, call.body) ]
  /\ UNCHANGED << call, escVars, intakeVars >>

EngineIdle ==
  /\ now = 0
  /\ tickets = << >>
  /\ steps = << >>
  /\ directory = << >>
  /\ smsAlerts = TRUE
  /\ startRet = << >>
  /\ stopRet = << >>
  /\ plannedAt = << >>
  /\ dpc = [d \in Dispatchers |-> "idle"]
  /\ batch = [d \in Dispatchers |-> << >>]
  /\ idx = [d \in Dispatchers |-> 1]
  /\ loaded = [d \in Dispatchers |-> << >>]
  /\ local = [d \in Dispatchers |-> << >>]
  /\ dlevel = [d \in Dispatchers |-> << >>]
  /\ sends = << >>
  /\ preStop = {}
  /\ sentAfterStop = {}

InitClassify ==
  /\ EngineIdle
  /\ PipelineIdle
  /\ \E rules \in RuleSets, subject \in Strings(MaxSubjectLen),
        body \in Strings(MaxBodyLen) :
       call = [ fn |-> "classify_email", rules |-> rules,
                subject |-> subject, body |-> body ]
  /\ ret = NoReturn

NextClassify == ClassifyEmail

SpecClassify == InitClassify /\ [][NextClassify]_vars

(***************************************************************************)
(* Properties of the escalation engine                                     *)
(***************************************************************************)
TicketOf(s) == steps[s].ticket_id
Stopped(s) == tickets[TicketOf(s)].escalation_stopped

\* C2: when stop_escalation stops a ticket that was not stopped, every step
\* of the ticket that was SCHEDULED is SKIPPED afterwards.
C2_StopSkipsScheduled ==
  [][ \A t \in TicketIds :
        (~tickets[t].escalation_stopped /\ tickets'[t].escalation_stopped) =>
          \A s \in StepIds :
            (steps[s].ticket_id = t /\ steps[s].status = "scheduled") =>
              steps'[s].status = "skipped" ]_vars

\* a step's status becomes SENT, in the store or in a run's session
BecomesSent(s) ==
  \/ steps[s].status # "sent" /\ steps'[s].status = "sent"
  \/ \E d \in Dispatchers :
        /\ s \in DOMAIN local[d] /\ s \in DOMAIN local'[d]
        /\ local[d][s].status # "sent" /\ local'[d][s].status = "sent"

C4_NoDispatchAfterStop ==
  [][ \A s \in StepIds : sends'[s] > sends[s] => ~Stopped(s) ]_vars

\* the step as the only poll cycle sees it, or as stored when it is in no batch
SeqView(s) ==
  IF s \in DOMAIN local["scheduler"] THEN local["scheduler"][s] ELSE Row(s)

AttemptsAllFailed(s) == SeqView(s).status \notin {"pending", "sent"}

\* C5: with one poll cycle at a time, a step whose sender has failed j times
\* in a row has retry_count j; it is back in SCHEDULED while j < max_retries,
\* it is FAILED with retry_count = max_retries when j = max_retries, and a
\* FAILED step is never dispatched again.
C5_RetryExhaustion ==
  /\ [](\A s \in StepIds :
          /\ AttemptsAllFailed(s) =>
                /\ SeqView(s).retry_count = sends[s]
                /\ sends[s] < steps[s].max_retries => SeqView(s).status = "scheduled"
                /\ sends[s] >= steps[s].max_retries =>
                      /\ SeqView(s).status = "failed"
                      /\ SeqView(s).retry_count = steps[s].max_retries
          /\ SeqView(s).status = "failed" =>
                SeqView(s).retry_count = steps[s].max_retries)
  /\ [][ \A s \in StepIds :
           SeqView(s).status = "failed" => sends'[s] = sends[s] ]_vars

C5_Witness ==
  \E s \in StepIds :
    /\ steps[s].status = "failed"
    /\ steps[s].retry_count = steps[s].max_retries
    /\ sends[s] = steps[s].max_retries
    /\ ~Stopped(s)

\* C6: retry_count never exceeds max_retries, in the store and in the
\* session of every poll cycle, under overlapping cycles and stops.
C6_RetryBound ==
  /\ \A s \in StepIds : steps[s].retry_count <= steps[s].max_retries
  /\ \A d \in Dispatchers : \A s \in DOMAIN local[d] :
        local[d][s].retry_count <= steps[s].max_retries
  /\ \A s \in StepIds :
        steps[s].max_retries = IF steps[s].channel = "email" THEN 3 ELSE 2

C6_Witness ==
  \E s \in StepIds :
    /\ steps[s].retry_count = steps[s].max_retries
    /\ sends[s] > steps[s].max_retries

ClaimedInterval(priority) ==
  CASE priority = "critical" -> 15
    [] priority = "high"     -> 60
    [] priority = "normal"   -> 240
    [] priority = "low"      -> 480

\* C7: every planned step of the contact at position i is scheduled at
\* ticket.created_at + i * interval(priority).
C7_SpacingFromCreatedAt ==
  \A s \in StepIds :
    steps[s].scheduled_at =
      tickets[TicketOf(s)].created_at
        + steps[s].step_number * ClaimedInterval(tickets[TicketOf(s)].priority)

\* C7 as amended: every planned step of the contact at position i is
\* scheduled at T + i * interval(priority), T the time the planner ran.
C7_SpacingFromPlanningTime ==
  \A s \in StepIds :
    /\ steps[s].step_number \in 1 .. Len(directory)
    /\ steps[s].scheduled_at =
         plannedAt[TicketOf(s)]
           + steps[s].step_number * ClaimedInterval(tickets[TicketOf(s)].priority)

C7_Witness ==
  \E s1, s2 \in StepIds :
    /\ steps[s1].step_number = 1 /\ steps[s2].step_number = 2
    /\ plannedAt[TicketOf(s1)] > tickets[TicketOf(s1)].created_at

\* C8: of two steps of a ticket, the one with the smaller step_number has
\* the smaller or equal scheduled_at, also after retries.
C8_ScheduleMonotone ==
  \A s1, s2 \in StepIds :
    (TicketOf(s1) = TicketOf(s2) /\ steps[s1].step_number < steps[s2].step_number)
      => steps[s1].scheduled_at <= steps[s2].scheduled_at

\* C8 as amended: the same, as long as the step with the smaller
\* step_number has not been rescheduled by a retry.
C8_ScheduleMonotoneUntilRetry ==
  \A s1, s2 \in StepIds :
    ( /\ TicketOf(s1) = TicketOf(s2)
      /\ steps[s1].step_number < steps[s2].step_number
      /\ steps[s1].retry_count = 0 )
      => steps[s1].scheduled_at <= steps[s2].scheduled_at

C8_Witness ==
  \E s1, s2 \in StepIds :
    /\ TicketOf(s1) = TicketOf(s2)
    /\ steps[s1].step_number < steps[s2].step_number
    /\ steps[s1].retry_count = 0
    /\ steps[s2].retry_count > 0

(***************************************************************************)
(* Properties of the intake pipeline                                       *)
(***************************************************************************)
\* C1: a run for a message id whose MessageState is COMPLETED, FAILED or
\* SKIPPED returns "already processed" at once and changes nothing: no
\* MessageState, e-mail row, ticket or step, no confirmation, no mark_read.
C1_IdempotentReplay ==
  [][ \A w \in Workers :
        ( /\ started'[w] > started[w]
          /\ msgStates[wmsg'[w]].status \in {"completed", "failed", "skipped"} )
        => /\ wresult'[w] = "already_processed"
           /\ wpc'[w] = "idle"
           /\ UNCHANGED << msgStates, emailRows, tickets, steps, conf,
                           markRead, ticketsMade, planCalls >> ]_vars

C1_Witness ==
  \E w \in Workers :
    /\ wresult[w] = "already_processed"
    /\ wpc[w] = "idle"
    /\ msgStates[wmsg[w]].status \in {"failed", "skipped"}
    /\ \E m \in Msgs : msgStates[m].status = "completed" /\ conf[m] = 1

\* the tickets that exist: the committed rows and the tickets of the runs
\* in progress
SameNumber(a, b) == a.ticket_number = b.ticket_number

\* C9: no two tickets of a UTC day receive the same number, and the
\* sequence numbers of a day increase in creation order.
C9_UniqueTicketNumbers ==
  /\ \A t1, t2 \in TicketIds :
       t1 < t2 =>
         /\ ~SameNumber(tickets[t1], tickets[t2])
         /\ tickets[t1].ticket_number[1] = tickets[t2].ticket_number[1]
              => tickets[t1].ticket_number[2] < tickets[t2].ticket_number[2]
  /\ \A w \in Workers : \A t \in TicketIds :
       wticket[w] # NoTicket => ~SameNumber(wticket[w], tickets[t])
  /\ \A w1, w2 \in Workers :
       (w1 # w2 /\ wticket[w1] # NoTicket /\ wticket[w2] # NoTicket)
         => ~SameNumber(wticket[w1], wticket[w2])

\* the committed tickets made from message m
TicketsOf(m) == {t \in TicketIds : tickets[t].message_id = m}

\* C10: the runs for one message id together create at most one ticket, send
\* at most one customer confirmation and call the planner at most once: only
\* one run has side effects, the others are serialized behind it or no-op.
C10_OneOutcomePerMessage ==
  \A m \in Msgs :
    /\ Cardinality(TicketsOf(m)) <= 1
    /\ conf[m] <= 1
    /\ planCalls[m] <= 1

\* the ticket was made by the pipeline from an accepted message while the
\* contacts were resolvable
AcceptedWithContacts(t) ==
  /\ EnableEscalation
  /\ directory # << >>
  /\ msgStates[tickets[t].message_id].status = "completed"

\* C11: the message state, the ticket and its escalation steps are persisted
\* as one unit: no persisted ticket of an accepted message is without steps,
\* and no persisted step is without its ticket.
C11_AtomicTicketAndSteps ==
  /\ \A t \in TicketIds :
       AcceptedWithContacts(t) => \E s \in StepIds : steps[s].ticket_id = t
  /\ \A s \in StepIds : steps[s].ticket_id \in TicketIds

StepsOfTicket(t) == {s \in StepIds : steps[s].ticket_id = t}

\* C12: start_escalation on a ticket that already has escalation steps is a
\* no-op: the steps of the ticket after the call are the steps before it.
C12_IdempotentPlanning ==
  [][ \A t \in TicketIds :
        StepsOfTicket(t) # {}
          => {s \in DOMAIN steps' : steps'[s].ticket_id = t} = StepsOfTicket(t)
    ]_vars

\* the text of the call contains a configured critical keyword
HasCriticalKeyword ==
  \E i \in 1 .. Len(call.rules.critical) :
    \/ Contains(CombinedText(call.subject, call.body), call.rules.critical[i])
    \/ Contains(CombinedText(call.subject, call.body), Lower(call.rules.critical[i]))

\* C13: a text that contains a configured critical keyword is classified
\* AOG, CRITICAL, confidence 0.95, is_aog true, whatever the category rules
\* score.
C13_EmergencyPrecedence ==
  (call.fn = "classify_email" /\ ret.returned /\ HasCriticalKeyword)
    => /\ ret.value.category = "aog"
       /\ ret.value.priority = "critical"
       /\ ret.value.confidence = Percent(95)
       /\ ret.value.is_aog

\* a critical keyword in a text for which a category rule scores as well
C13_Witness ==
  /\ call.fn = "classify_email"
  /\ ret.returned
  /\ HasCriticalKeyword
  /\ ~is_aog_keyword(CombinedText(call.subject, call.body))
  /\ CategoryScores(call.rules, CombinedText(call.subject, call.body)) # << >>
  /\ ret.value.category = "aog"

\* the decision gate as the claim states it
ClaimedGate(c) ==
  \/ c.category = "aog"
  \/ c.category \in {"service", "maintenance"}
  \/ c.category = "invoice" /\ c.confidence > 70
  \/ c.category = "general" /\ c.confidence > 80

\* C14: a parsed message goes on to ticket creation if and only if its
\* classification passes the gate; a message that does not pass ends in
\* SKIPPED and gets no ticket, no confirmation and no escalation planning.
C14_DecisionGate ==
  /\ [][ \A w \in Workers :
           (wpc[w] = "parse" /\ wpc'[w] # "parse" /\ msgData[wmsg[w]].parses)
             => IF ClaimedGate(msgData[wmsg[w]])
                  THEN wpc'[w] = "ticket"
                  ELSE wpc'[w] = "skip" ]_vars
  /\ [](\A m \in Msgs :
          (msgData[m].parses /\ ~ClaimedGate(msgData[m]))
            => /\ ticketsMade[m] = 0
               /\ TicketsOf(m) = {}
               /\ conf[m] = 0
               /\ planCalls[m] = 0
               /\ msgStates[m].status \in {"none", "skipped"})
  /\ [][ \A w \in Workers :
           (wpc[w] = "ticket" /\ wpc'[w] = "confirm")
             => ticketsMade'[wmsg[w]] = ticketsMade[wmsg[w]] + 1 ]_vars

\* an invoice at the threshold is skipped and one above it gets a ticket
C14_Witness ==
  /\ msgData["m1"] \in {Classified("invoice", 70), Classified("general", 80)}
  /\ msgStates["m1"].status = "skipped"
  /\ ticketsMade["m1"] = 0
  /\ msgData["m2"] = ServiceNormal
  /\ TicketsOf("m2") # {}

\* the position of step b in the batch of the poll cycle, 0 when not in it
BatchPosition(b) ==
  IF \E i \in 1 .. Len(batch["scheduler"]) : batch["scheduler"][i] = b
    THEN CHOOSE i \in 1 .. Len(batch["scheduler"]) : batch["scheduler"][i] = b
    ELSE 0

\* C15: with one poll cycle at a time, senders are invoked earliest-due
\* first: when the sender of a step is invoked, the steps of the same ticket
\* dispatched earlier in the cycle had a scheduled_at not greater than its
\* own, and those still to be dispatched, later in this cycle or waiting as
\* SCHEDULED for a later cycle, have a scheduled_at not less than its own.
C15_DispatchOrder ==
  [][ \A s \in StepIds :
        sends'[s] > sends[s] =>
          \A b \in StepIds \ {s} :
            steps[b].ticket_id = steps[s].ticket_id =>
              LET at == loaded["scheduler"][s].scheduled_at
              IN /\ (BatchPosition(b) # 0 /\ BatchPosition(b) < BatchPosition(s))
                      => loaded["scheduler"][b].scheduled_at <= at
                 /\ BatchPosition(b) > BatchPosition(s)
                      => loaded["scheduler"][b].scheduled_at >= at
                 /\ (BatchPosition(b) = 0 /\ steps[b].status = "scheduled")
                      => steps[b].scheduled_at >= at ]_vars

\* a retried step has been dispatched again, after a step planned later than
\* its first attempt
C15_Witness ==
  \E s, b \in StepIds :
    /\ steps[s].ticket_id = steps[b].ticket_id
    /\ steps[s].step_number < steps[b].step_number
    /\ sends[s] >= 2
    /\ sends[b] >= 1
    /\ steps[s].retry_count >= 1
    /\ steps[s].scheduled_at > steps[b].scheduled_at

\* C16: before an external side effect of a run is attempted (mark_read,
\* customer confirmation, start_escalation) the MessageState of the message
\* is persisted, so that a crash leaves a marker of the step in progress.
C16_DurableMarkers ==
  \A m \in Msgs :
    (markRead[m] > 0 \/ conf[m] > 0 \/ planCalls[m] > 0)
      => msgStates[m].status # "none"

\* C17: batch isolation. The counters of process_mailbox account for every
\* message whose run has ended exactly once, and when process_mailbox
\* returns, every fetched message has been handed to a run: processed +
\* skipped + errors equals the number of fetched messages, whatever a run
\* returned or raised.
C17_BatchIsolation ==
  /\ mailbox.processed + mailbox.skipped + mailbox.errors = mailbox.done
  /\ mailbox.returned
       => /\ mailbox.done = Len(mailbox.fetched)
          /\ started["w1"] = Len(mailbox.fetched)

\* a batch whose first message failed and whose second was processed
C17_Witness ==
  /\ mailbox.returned
  /\ mailbox.fetched = << "m1", "m2" >>
  /\ msgData["m1"] = Unparseable
  /\ mailbox.errors = 1
  /\ mailbox.processed = 1

StepsAt(t, i, channel) ==
  { s \in StepIds : /\ steps[s].ticket_id = t
                    /\ steps[s].step_number = i
                    /\ steps[s].channel = channel }

\* the SMS steps, the schedule and the initial status of the steps at
\* position i, as the claim states them
SmsAndStatusAt(t, i) ==
  LET contact == directory[i]
      wants_sms == contact.phone
                     /\ (tickets[t].priority = "critical" \/ smsAlerts)
  IN  /\ Cardinality(StepsAt(t, i, "sms")) = (IF wants_sms THEN 1 ELSE 0)
      /\ \A e \in StepsAt(t, i, "email"), m \in StepsAt(t, i, "sms") :
           steps[e].scheduled_at = steps[m].scheduled_at
      /\ \A s \in StepsAt(t, i, "email") \cup StepsAt(t, i, "sms") :
           steps[s].status = "scheduled" /\ steps[s].retry_count = 0

\* C19 as stated: once the planner has run for a ticket, every resolved
\* contact at position i has exactly one EMAIL step with step_number i, and
\* one SMS step with the same step_number and scheduled_at iff the contact
\* has a phone number and (the priority is CRITICAL or SMS alerts are
\* enabled); all steps are SCHEDULED with retry_count 0.
C19_EmailStepForEveryContact ==
  \A t \in TicketIds :
    startRet[t] = "true"
      => /\ \A s \in StepIds : steps[s].step_number \in 1 .. Len(directory)
         /\ \A i \in 1 .. Len(directory) :
              /\ Cardinality(StepsAt(t, i, "email")) = 1
              /\ SmsAndStatusAt(t, i)

\* C19 amended: the EMAIL step is created exactly for the contacts that
\* have an e-mail address; the rest as stated.
C19_EmailStepIffAddress ==
  \A t \in TicketIds :
    startRet[t] = "true"
      => /\ \A s \in StepIds : steps[s].step_number \in 1 .. Len(directory)
         /\ \A i \in 1 .. Len(directory) :
              /\ Cardinality(StepsAt(t, i, "email"))
                   = (IF directory[i].email THEN 1 ELSE 0)
              /\ SmsAndStatusAt(t, i)

\* planned: a contact with only a phone number got its SMS step and no
\* EMAIL step, the next contact got both
C19_Witness ==
  /\ Len(directory) = 2
  /\ ~directory[1].email /\ directory[1].phone
  /\ directory[2].email /\ directory[2].phone
  /\ startRet[1] = "true"
  /\ StepsAt(1, 1, "email") = {}
  /\ Cardinality(StepsAt(1, 1, "sms")) = 1
  /\ Cardinality(StepsAt(1, 2, "email")) = 1
  /\ Cardinality(StepsAt(1, 2, "sms")) = 1

\* the highest step_number among the SENT steps of ticket t, 0 when none
SentLevel(t) ==
  LET sent == { steps[s].step_number :
                  s \in { x \in StepIds : /\ steps[x].ticket_id = t
                                          /\ steps[x].status = "sent" } }
  IN  IF sent = {} THEN 0
      ELSE CHOOSE n \in sent : \A k \in sent : k <= n

\* C20: in every state the persisted escalation_level of a ticket is the
\* highest step_number among its SENT steps (0 when none has been sent),
\* and no step of the system decreases it.
C20_EscalationLevel ==
  /\ [](\A t \in TicketIds : tickets[t].escalation_level = SentLevel(t))
  /\ [][\A t \in TicketIds :
          tickets'[t].escalation_level >= tickets[t].escalation_level]_vars

\* the response and resolution tables as the claim states them, in minutes
ClaimedResponse(priority) ==
  IF priority = "critical" THEN 15
  ELSE IF priority = "high" THEN 60
  ELSE IF priority = "normal" THEN 4 * 60
  ELSE 8 * 60

ClaimedResolution(priority) ==
  IF priority = "critical" THEN 2 * 60
  ELSE IF priority = "high" THEN 8 * 60
  ELSE IF priority = "normal" THEN 24 * 60
  ELSE 48 * 60

ClaimedBestRule(rules, text) ==
  LET scores == RuleScores(rules, text)
      best == CHOOSE i \in 1 .. Len(scores) :
                /\ \A j \in 1 .. Len(scores) : scores[j].score <= scores[i].score
                /\ \A j \in 1 .. (i - 1) : scores[j].score < scores[i].score
  IN scores[best]

\* C22: classify_email is a function of its arguments, and when the result
\* comes from the category rules it is the result of a rule with the highest
\* score, the first of the configuration among equals: category, priority
\* and confidence are those of that rule.
C22_TieBreak ==
  (ret.returned /\ call.fn = "classify_email")
    => LET text == CombinedText(call.subject, call.body)
           scores == RuleScores(call.rules, text)
           urgent == IF KeywordMatches(call.rules.urgent, text) # {}
                       THEN Percent(30) ELSE 0
           from_rules ==
             /\ KeywordMatches(call.rules.critical, text) = {}
             /\ ~is_aog_keyword(text)
             /\ \E i \in 1 .. Len(scores) : scores[i].score > 0
       IN /\ ret.value = classify_email(call.rules, call.subject, call.body)
          /\ from_rules
               => LET rule == ClaimedBestRule(call.rules, text)
                  IN /\ ret.value.category = rule.name
                     /\ ret.value.priority \in {rule.priority, "high"}
                     /\ ret.value.confidence
                          = Min(Percent(90), rule.score + urgent)

\* a change of the status of a step object within one session, made by one
\* run of _execute_escalation_step
SessionTransition(old, new) ==
  \/ old.status = "scheduled" /\ new.status = "pending"
  \/ old.status = "pending" /\ new.status = "sent"
  \/ old.status = "pending" /\ new.status = "failed"
  \/ /\ old.status = "pending" /\ new.status = "scheduled"
     /\ new.retry_count < new.max_retries

\* C23: every status change of a step is one of SCHEDULED->PENDING,
\* PENDING->SENT, PENDING->FAILED, FAILED->SCHEDULED with retries left, or
\* SCHEDULED->SKIPPED of a stopped ticket. For the persisted row, which
\* changes once per commit: SENT and SKIPPED are never left, a FAILED row
\* without retries left is never left, and SKIPPED is entered only from
\* SCHEDULED while the ticket is stopped. For the step object of a session:
\* each change is one of the listed transitions (a failed attempt with
\* retries left passes through FAILED to SCHEDULED).
C23_StepStateMachine ==
  [][ /\ \A s \in StepIds :
           steps'[s].status # steps[s].status
             => /\ steps[s].status \notin {"sent", "skipped"}
                /\ steps[s].status = "failed"
                     => steps[s].retry_count < steps[s].max_retries
                /\ steps'[s].status = "skipped"
                     => /\ steps[s].status = "scheduled"
                        /\ tickets'[steps[s].ticket_id].escalation_stopped
      /\ \A d \in Dispatchers :
           \A s \in (DOMAIN local[d]) \cap (DOMAIN local'[d]) :
             local'[d][s].status # local[d][s].status
               => SessionTransition(
                    [ status |-> local[d][s].status,
                      retry_count |-> local[d][s].retry_count,
                      max_retries |-> steps[s].max_retries ],
                    [ status |-> local'[d][s].status,
                      retry_count |-> local'[d][s].retry_count,
                      max_retries |-> steps[s].max_retries ]) ]_vars

\* a failed attempt has put the step back for a later time: in the persisted
\* row, or in a session that has not committed yet
BackedOff(s) ==
  \/ steps[s].retry_count > 0 /\ steps[s].scheduled_at > now
  \/ \E d \in Dispatchers :
       /\ s \in DOMAIN local[d]
       /\ local[d][s].retry_count > loaded[d][s].retry_count
       /\ local[d][s].scheduled_at > now

\* C24: a failed attempt at time t that leaves retry_count below
\* max_retries puts the step back to SCHEDULED with scheduled_at = t + 5
\* minutes, and no sender is invoked for the step before that time.
C24_FixedBackoff ==
  [][ /\ \A d \in Dispatchers :
           \A s \in (DOMAIN local[d]) \cap (DOMAIN local'[d]) :
             ( /\ local'[d][s].retry_count = local[d][s].retry_count + 1
               /\ local'[d][s].retry_count < steps[s].max_retries )
               => /\ local'[d][s].status = "scheduled"
                  /\ local'[d][s].scheduled_at = now + 5
      /\ \A s \in StepIds : sends'[s] > sends[s] => ~BackedOff(s) ]_vars

\* the position of a status in the chain of ProcessingStatus; 0 for a
\* message without MessageState
ChainRank(status) ==
  IF status = "none" THEN 0
  ELSE IF status = "parsing" THEN 1
  ELSE IF status = "classifying" THEN 2
  ELSE IF status = "creating_ticket" THEN 3
  ELSE IF status = "sending_confirmation" THEN 4
  ELSE IF status = "scheduling_escalation" THEN 5
  ELSE 6

\* a move the claim allows: forward along the chain, or from a state that
\* is not terminal to FAILED or SKIPPED
ForwardMove(old, new) ==
  IF new \in {"failed", "skipped"}
    THEN old \notin {"completed", "failed", "skipped"}
    ELSE old \notin {"failed", "skipped"} /\ ChainRank(new) > ChainRank(old)

\* C25: the status of a MessageState only moves forward along PARSING ->
\* CLASSIFYING -> CREATING_TICKET -> SENDING_CONFIRMATION ->
\* SCHEDULING_ESCALATION -> COMPLETED, or from a non-terminal state to FAILED
\* or SKIPPED: for the persisted row at every commit, for the record a run
\* finds or creates when it sets PARSING, and for every later assignment of
\* the run.
C25_IntakeStateOrder ==
  [][ /\ \A m \in Msgs :
           msgStates'[m].status # msgStates[m].status
             => ForwardMove(msgStates[m].status, msgStates'[m].status)
      /\ \A w \in Workers :
           /\ (wpc[w] = "create_state" /\ wpc'[w] = "parse")
                => ForwardMove(msgStates[wmsg[w]].status, wstate'[w].status)
           /\ ( /\ wpc[w] \notin {"idle", "create_state"}
                /\ wstate'[w].status # wstate[w].status
                /\ wstate'[w].status # "none" )
                => ForwardMove(wstate[w].status, wstate'[w].status) ]_vars

\* C26: once a ticket's escalation_stopped is true it stays true; a
\* stop_escalation call on a stopped ticket returns success and changes
\* neither the ticket (its reason included) nor any step; a start_escalation
\* call on a stopped ticket returns failure and creates no step.
C26_StopOneDirectional ==
  [][ \A t \in TicketIds :
        tickets[t].escalation_stopped
          => /\ tickets'[t].escalation_stopped
             /\ stopRet'[t] # stopRet[t]
                  => /\ stopRet'[t] = Append(stopRet[t], "true")
                     /\ tickets'[t] = tickets[t]
                     /\ steps' = steps
             /\ startRet'[t] # startRet[t] => startRet'[t] = "false"
             /\ \A s \in DOMAIN steps' :
                  steps'[s].ticket_id = t => s \in DOMAIN steps ]_vars

\* the ticket was planned, stopped, stopped again and planned again
C26_Witness ==
  \E t \in TicketIds :
    /\ tickets[t].escalation_stopped
    /\ tickets[t].escalation_stopped_reason = "customer_reply"
    /\ Len(stopRet[t]) = 2
    /\ startRet[t] = "false"
    /\ \E s \in StepIds : steps[s].ticket_id = t

\* C27: the channel sender is invoked for a step at most max_retries times
\* over the step's lifetime, and no two poll cycles invoke it for the same
\* attempt of the same step: a cycle that invokes it holds the step with
\* the retry_count the committed row has, and no other cycle is sending the
\* step with that retry_count.
C27_BoundedSends ==
  /\ \A s \in StepIds : sends[s] <= steps[s].max_retries
  /\ \A d, e \in Dispatchers :
       \A s \in (DOMAIN local[d]) \cap (DOMAIN local[e]) :
         ( /\ d # e
           /\ dpc[d] = "sending" /\ batch[d][idx[d]] = s
           /\ dpc[e] = "sending" /\ batch[e][idx[e]] = s )
           => local[d][s].retry_count # local[e][s].retry_count

\* C28: whenever a poll cycle has finished, every step the table holds in
\* FAILED has retry_count = max_retries, also when the step failed because
\* its execution raised.
C28_FailedMeansExhausted ==
  \A s \in StepIds :
    steps[s].status = "failed" => steps[s].retry_count = steps[s].max_retries

\* C29: at most one persisted ticket references a message id, whatever
\* runs (replays, re-runs, concurrent runs) were made for it, and a message
\* whose state is SKIPPED, or FAILED before a ticket was created, has none.
C29_OneTicketPerMessage ==
  \A m \in Msgs :
    /\ Cardinality(TicketsOf(m)) <= 1
    /\ msgStates[m].status \in {"skipped", "failed"} => TicketsOf(m) = {}

\* a run that had built a ticket for the message was rolled back, a re-run
\* built and persisted another, and a replay found the message complete
C29_Witness ==
  \E m \in Msgs :
    /\ ticketsMade[m] >= 2
    /\ Cardinality(TicketsOf(m)) = 1
    /\ msgStates[m].status = "completed"
    /\ \E w \in Workers :
         wmsg[w] = m /\ wpc[w] = "idle" /\ wresult[w] = "already_processed"

\* a status the dispatcher never takes a step out of
Settled(s) == steps[s].status \in {"sent", "failed", "skipped"}

\* C30: with the poll cycle running again and again and time advancing,
\* every step the planner created reaches SENT, FAILED or SKIPPED and stays
\* there, whether or not its ticket is stopped: from some point on no step
\* that has come due is still SCHEDULED or PENDING.
C30_StepTermination ==
  <>[](\A s \in StepIds : Settled(s) \/ steps[s].scheduled_at > now)

====
